---- MODULE Spec2Model ----
(***************************************************************************)
(* Model of streamlit_app.py: the resume information extractor.            *)
(*                                                                         *)
(* The Streamlit script is re-run from top to bottom on every user action; *)
(* what survives between runs is st.session_state and the uploader widget. *)
(* Each action below is one such run: the widget callback, then main().    *)
(* Python str values are TLA+ strings; JSON values (json.load / json.loads *)
(* results) are tagged records, with Python None being JSON null.          *)
(***************************************************************************)
EXTENDS Integers, Sequences, FiniteSets, TLC

VARIABLES
    uploaded_file,          \* value of st.file_uploader (None or an uploaded file)
    prompt_text,            \* st.session_state.prompt_text
    question_prompt_text,   \* st.session_state.question_prompt_text
    show_question_input,    \* st.session_state.show_question_input
    extracted_info,         \* st.session_state.extracted_info
    run,                    \* what the most recent script run did and showed
    compose                 \* locals of the most recent prompt composition

vars == <<uploaded_file, prompt_text, question_prompt_text, show_question_input,
          extracted_info, run, compose>>

session_vars == <<uploaded_file, prompt_text, question_prompt_text,
                  show_question_input, extracted_info, run>>

-----------------------------------------------------------------------------
(* Bounds of the model.                                                    *)

\* pages of an uploaded PDF
MaxPages == 2
\* pieces (placeholder tokens or literal fragments) a drawn template is glued from
MaxPieces == 2

-----------------------------------------------------------------------------
(* Python str operations.                                                  *)

Char(s, i) == SubSeq(s, i, i)

From(s, i) == SubSeq(s, i, Len(s))

StartsAt(s, i, p) == i + Len(p) - 1 <= Len(s) /\ SubSeq(s, i, i + Len(p) - 1) = p

\* s.endswith(suffix)
EndsWith(s, suffix) ==
    Len(suffix) <= Len(s) /\ SubSeq(s, Len(s) - Len(suffix) + 1, Len(s)) = suffix

\* old in s
Contains(s, old) == \E i \in 1..(Len(s) + 1) : StartsAt(s, i, old)

Min(S) == CHOOSE x \in S : \A y \in S : x <= y

\* s.find(old) + 1, for an old that occurs in s
Find(s, old) == Min({i \in 1..(Len(s) + 1) : StartsAt(s, i, old)})

\* s.replace(old, new) for a non-empty old: leftmost non-overlapping
\* occurrences, found in one scan of s; the replacement is not rescanned.
RECURSIVE StrReplace(_, _, _)
StrReplace(s, old, new) ==
    IF ~Contains(s, old) THEN s
    ELSE LET at == Find(s, old)
         IN SubSeq(s, 1, at - 1) \o new
            \o StrReplace(From(s, at + Len(old)), old, new)

Whitespace == {" ", "\n", "\t", "\r"}

\* s == "": the emptiness test without the strip()
IsEmpty(s) == s = ""

\* not s.strip()
IsBlank(s) == \A i \in 1..Len(s) : Char(s, i) \in Whitespace

Digits == "0123456789"

RECURSIVE NatStr(_)
NatStr(n) ==
    IF n < 10 THEN Char(Digits, n + 1)
    ELSE NatStr(n \div 10) \o Char(Digits, (n % 10) + 1)

\* str(n)
IntStr(n) == IF n < 0 THEN "-" \o NatStr(0 - n) ELSE NatStr(n)

RECURSIVE Spaces(_)
Spaces(n) == IF n <= 0 THEN "" ELSE " " \o Spaces(n - 1)

-----------------------------------------------------------------------------
(* JSON values and the json module.                                        *)

JNull == [t |-> "null"]
JBool(b) == [t |-> "bool", b |-> b]
JInt(n) == [t |-> "int", n |-> n]
JStr(s) == [t |-> "str", s |-> s]
JList(items) == [t |-> "list", items |-> items]
\* members: a sequence of [k |-> key string, v |-> value]
JObj(members) == [t |-> "dict", members |-> members]

\* Python None is what json.loads returns for the JSON text null
None == JNull

\* the body of a JSON string literal: json.dumps escapes quote, backslash
\* and control characters
Escaped == {"\"", "\\", "\n", "\t", "\r"}

RECURSIVE EscapeStr(_)
EscapeStr(s) ==
    LET special == {i \in 1..Len(s) : Char(s, i) \in Escaped} IN
    IF special = {} THEN s
    ELSE LET at == Min(special)
             ec == Char(s, at)
             e == IF ec = "\"" THEN "\\\""
                  ELSE IF ec = "\\" THEN "\\\\"
                  ELSE IF ec = "\n" THEN "\\n"
                  ELSE IF ec = "\t" THEN "\\t"
                  ELSE "\\r"
         IN SubSeq(s, 1, at - 1) \o e \o EscapeStr(From(s, at + 1))

\* json.dumps(v, indent=indent) at nesting depth level; indent = -1 stands
\* for indent=None (one line, separators ", " and ": "), otherwise every
\* item goes on its own line and the item separator is ","
RECURSIVE Dumps(_, _, _), DumpItems(_, _, _, _), DumpMembers(_, _, _, _)
Dumps(v, indent, level) ==
    LET inner == IF indent < 0 THEN "" ELSE "\n" \o Spaces(indent * (level + 1))
        outer == IF indent < 0 THEN "" ELSE "\n" \o Spaces(indent * level)
    IN CASE v.t = "null" -> "null"
         [] v.t = "bool" -> (IF v.b THEN "true" ELSE "false")
         [] v.t = "int" -> IntStr(v.n)
         [] v.t = "str" -> "\"" \o EscapeStr(v.s) \o "\""
         [] v.t = "list" ->
                IF v.items = <<>> THEN "[]"
                ELSE "[" \o inner \o DumpItems(v.items, 1, indent, level + 1)
                         \o outer \o "]"
         [] v.t = "dict" ->
                IF v.members = <<>> THEN "{}"
                ELSE "{" \o inner \o DumpMembers(v.members, 1, indent, level + 1)
                         \o outer \o "}"

DumpItems(items, i, indent, level) ==
    LET sep == IF indent < 0 THEN ", " ELSE "," \o "\n" \o Spaces(indent * level)
    IN IF i = Len(items) THEN Dumps(items[i], indent, level)
       ELSE Dumps(items[i], indent, level) \o sep
            \o DumpItems(items, i + 1, indent, level)

DumpMembers(members, i, indent, level) ==
    LET sep == IF indent < 0 THEN ", " ELSE "," \o "\n" \o Spaces(indent * level)
        one == "\"" \o EscapeStr(members[i].k) \o "\"" \o ": "
               \o Dumps(members[i].v, indent, level)
    IN IF i = Len(members) THEN one
       ELSE one \o sep \o DumpMembers(members, i + 1, indent, level)

\* json.dumps(v)
JsonDumps(v) == Dumps(v, -1, 0)

\* json.dumps(v, indent=2)
JsonDumpsIndent2(v) == Dumps(v, 2, 0)

\* A parse step yields [ok |-> TRUE, v |-> value, i |-> next index] or Fail
Fail == [ok |-> FALSE]

\* the first index from i on that holds no whitespace (Len(s) + 1 if none)
SkipWs(s, i) ==
    IF i > Len(s) \/ Char(s, i) \notin Whitespace THEN i
    ELSE Min({j \in i..(Len(s) + 1) : j = Len(s) + 1 \/ Char(s, j) \notin Whitespace})

RECURSIVE ScanString(_, _, _)

\* the string literal from its first quote or backslash (at stop) on, with
\* chunk read so far
ScanStop(s, chunk, stop) ==
    IF Char(s, stop) = "\"" THEN [ok |-> TRUE, v |-> chunk, i |-> stop + 1]
    ELSE IF Char(s, stop) = "\\" /\ stop + 1 <= Len(s)
         THEN LET d == Char(s, stop + 1) IN
              IF d \in {"\"", "\\", "/"} THEN ScanString(s, stop + 2, chunk \o d)
              ELSE IF d = "n" THEN ScanString(s, stop + 2, chunk \o "\n")
              ELSE IF d = "t" THEN ScanString(s, stop + 2, chunk \o "\t")
              ELSE IF d = "r" THEN ScanString(s, stop + 2, chunk \o "\r")
              ELSE Fail
         ELSE Fail

\* the string literal from index i on, given the indices of its quotes,
\* backslashes and control characters
ScanTo(s, i, acc, stops) ==
    IF stops = {} THEN Fail
    ELSE ScanStop(s, acc \o SubSeq(s, i, Min(stops) - 1), Min(stops))

\* the characters of a string literal after its opening quote
ScanString(s, i, acc) ==
    ScanTo(s, i, acc, {j \in i..Len(s) : Char(s, j) \in Escaped})

DigitValue(c) == CHOOSE d \in 0..9 : Char(Digits, d + 1) = c

IsDigit(c) == \E d \in 0..9 : Char(Digits, d + 1) = c

RECURSIVE ScanDigits(_, _, _)
ScanDigits(s, i, acc) ==
    IF i <= Len(s) /\ IsDigit(Char(s, i))
    THEN ScanDigits(s, i + 1, 10 * acc + DigitValue(Char(s, i)))
    ELSE [ok |-> TRUE, v |-> acc, i |-> i]

\* the value of the integer literal whose digits start at index j
IntAt(s, j, neg, digits) ==
    [ok |-> TRUE, v |-> JInt(IF neg THEN 0 - digits.v ELSE digits.v), i |-> digits.i]

\* an integer literal from index j on, its sign read
ScanSigned(s, j, neg) ==
    IF j > Len(s) \/ ~IsDigit(Char(s, j)) THEN Fail
    ELSE IntAt(s, j, neg, IF Char(s, j) = "0"
                          THEN [ok |-> TRUE, v |-> 0, i |-> j + 1]
                          ELSE ScanDigits(s, j, 0))

\* an integer literal: -? (0 | [1-9][0-9]*); fractions and exponents are
\* outside the modelled inputs
ScanInt(s, i) ==
    IF i <= Len(s) /\ Char(s, i) = "-" THEN ScanSigned(s, i + 1, TRUE)
    ELSE ScanSigned(s, i, FALSE)

RECURSIVE ParseValue(_, _), ParseElements(_, _, _), ParseMembers(_, _, _)

\* a string literal read as a value
StringValue(r) == IF r.ok THEN [ok |-> TRUE, v |-> JStr(r.v), i |-> r.i] ELSE Fail

\* after [ : the empty list, or its elements
ListFrom(s, j) ==
    IF j <= Len(s) /\ Char(s, j) = "]"
    THEN [ok |-> TRUE, v |-> JList(<<>>), i |-> j + 1]
    ELSE ParseElements(s, j, <<>>)

\* after { : the empty object, or its members
ObjectFrom(s, j) ==
    IF j <= Len(s) /\ Char(s, j) = "}"
    THEN [ok |-> TRUE, v |-> JObj(<<>>), i |-> j + 1]
    ELSE ParseMembers(s, j, <<>>)

\* one JSON value starting at index i (whitespace already skipped)
ParseValue(s, i) ==
    IF i > Len(s) THEN Fail
    ELSE IF StartsAt(s, i, "null") THEN [ok |-> TRUE, v |-> JNull, i |-> i + 4]
    ELSE IF StartsAt(s, i, "true") THEN [ok |-> TRUE, v |-> JBool(TRUE), i |-> i + 4]
    ELSE IF StartsAt(s, i, "false") THEN [ok |-> TRUE, v |-> JBool(FALSE), i |-> i + 5]
    ELSE IF Char(s, i) = "\"" THEN StringValue(ScanString(s, i + 1, ""))
    ELSE IF Char(s, i) = "[" THEN ListFrom(s, SkipWs(s, i + 1))
    ELSE IF Char(s, i) = "{" THEN ObjectFrom(s, SkipWs(s, i + 1))
    ELSE ScanInt(s, i)

\* after an element: ] ends the list, a comma brings the next element
ElementNext(s, items, after) ==
    IF after > Len(s) THEN Fail
    ELSE IF Char(s, after) = "]" THEN [ok |-> TRUE, v |-> JList(items), i |-> after + 1]
    ELSE IF Char(s, after) = "," THEN ParseElements(s, SkipWs(s, after + 1), items)
    ELSE Fail

\* the element just parsed joins the list
ElementValue(s, acc, elem) ==
    IF ~elem.ok THEN Fail ELSE ElementNext(s, Append(acc, elem.v), SkipWs(s, elem.i))

\* value (, value)* ] with the opening bracket consumed
ParseElements(s, i, acc) == ElementValue(s, acc, ParseValue(s, i))

\* after a member: } ends the object, a comma brings the next member
MemberNext(s, members, nxt) ==
    IF nxt > Len(s) THEN Fail
    ELSE IF Char(s, nxt) = "}" THEN [ok |-> TRUE, v |-> JObj(members), i |-> nxt + 1]
    ELSE IF Char(s, nxt) = "," THEN ParseMembers(s, SkipWs(s, nxt + 1), members)
    ELSE Fail

\* the value just parsed joins the object under key
MemberValue(s, acc, key, val) ==
    IF ~val.ok THEN Fail
    ELSE MemberNext(s, Append(acc, [k |-> key, v |-> val.v]), SkipWs(s, val.i))

\* after a key: the colon, then the value
MemberColon(s, acc, key, colon) ==
    IF colon > Len(s) \/ Char(s, colon) # ":" THEN Fail
    ELSE MemberValue(s, acc, key, ParseValue(s, SkipWs(s, colon + 1)))

\* the key just read
MemberKey(s, acc, key) ==
    IF ~key.ok THEN Fail ELSE MemberColon(s, acc, key.v, SkipWs(s, key.i))

\* "key" : value (, "key" : value)* } with the opening brace consumed
ParseMembers(s, i, acc) ==
    IF i > Len(s) \/ Char(s, i) # "\"" THEN Fail
    ELSE MemberKey(s, acc, ScanString(s, i + 1, ""))

\* the whole text is one value: nothing but whitespace follows it
WholeText(s, r) ==
    IF r.ok /\ SkipWs(s, r.i) = Len(s) + 1 THEN [ok |-> TRUE, v |-> r.v] ELSE Fail

\* json.loads(s): [ok |-> TRUE, v |-> value], or [ok |-> FALSE] for
\* json.JSONDecodeError
JsonLoads(s) == WholeText(s, ParseValue(s, SkipWs(s, 1)))

\* obj[key]: KeyError / TypeError is [ok |-> FALSE]
GetKey(obj, key) ==
    IF obj.t = "dict" /\ \E i \in 1..Len(obj.members) : obj.members[i].k = key
    THEN [ok |-> TRUE,
          v |-> obj.members[CHOOSE i \in 1..Len(obj.members) : obj.members[i].k = key].v]
    ELSE Fail

\* obj[0]: IndexError / KeyError / TypeError is [ok |-> FALSE]
GetFirst(obj) ==
    IF obj.t = "list" /\ Len(obj.items) > 0 THEN [ok |-> TRUE, v |-> obj.items[1]]
    ELSE IF obj.t = "str" /\ Len(obj.s) > 0 THEN [ok |-> TRUE, v |-> JStr(Char(obj.s, 1))]
    ELSE Fail

-----------------------------------------------------------------------------
(* The environment of one script run.                                      *)

\* datetime.now().year at import time
current_year == 2026

SchemaToken == "{json.dumps(schema_json)}"
YearToken == "{current_year}"
TextToken == "{extracted_text}"
InfoToken == "{json.dumps(extracted_info, indent=2)}"

\* st.file_uploader returns None or an UploadedFile (name, getvalue());
\* the bytes are either no PDF at all or a PDF with the text of each page
NoFile == [present |-> FALSE]
UploadedFile(name, data) == [present |-> TRUE, name |-> name, data |-> data]
NotAPdf == [valid |-> FALSE, pages |-> <<>>]
Pdf(pages) == [valid |-> TRUE, pages |-> pages]

\* ./schema.json on disk when the button is pressed
NoSchemaFile == [exists |-> FALSE, content |-> ""]
SchemaFile(content) == [exists |-> TRUE, content |-> content]

\* what requests.post does: raise, or return a response
TransportFailure == [kind |-> "transport"]
HttpResponse(status_code, text) ==
    [kind |-> "http", status_code |-> status_code, text |-> text]
\* stands for "no request was made" in the record of a run
NoResponse == [kind |-> "none"]

\* the body {"choices": [{"message": {"content": content}}]}
ChatBody(content) ==
    JsonDumps(JObj(<<[k |-> "choices", v |-> JList(<<JObj(<<
        [k |-> "message", v |-> JObj(<<[k |-> "content", v |-> content]>>)]>>)>>)]>>))

\* one element shown on the page: st.error, st.warning, st.info, st.write,
\* st.subheader, st.json, st.code, st.text_area
Show(widget, text) == [w |-> widget, text |-> text]

-----------------------------------------------------------------------------
(* The functions of streamlit_app.py.                                      *)

\* read_schema: the parsed schema, or None after reporting the error
read_schema(schema_file) ==
    IF ~schema_file.exists
    THEN [schema |-> None,
          shown |-> <<Show("error", "Error reading schema file: FileNotFoundError")>>]
    ELSE LET parsed == JsonLoads(schema_file.content) IN
         IF parsed.ok THEN [schema |-> parsed.v, shown |-> <<>>]
         ELSE [schema |-> None,
               shown |-> <<Show("error", "Error reading schema file: JSONDecodeError")>>]

RECURSIVE ConcatPages(_, _)
\* text += page.extract_text() for the pages from index i on
ConcatPages(pages, i) ==
    IF i > Len(pages) THEN "" ELSE pages[i] \o ConcatPages(pages, i + 1)

\* extract_text_from_pdf_plumber: the concatenated page texts, or None
\* (none |-> TRUE) after reporting the error when pdfplumber cannot open
\* the bytes
extract_text_from_pdf_plumber(pdf_data) ==
    IF pdf_data.valid
    THEN [none |-> FALSE, text |-> ConcatPages(pdf_data.pages, 1), shown |-> <<>>]
    ELSE [none |-> TRUE, text |-> "",
          shown |-> <<Show("error", "Error extracting text from PDF: PDFSyntaxError")>>]

\* the schema guard left out
SchemaNeverMissing(schema_json) == FALSE

\* if schema_json is None
SchemaMissing(schema_json) == schema_json = None

\* the replacements with the extracted text substituted first
ComposePromptTextFirst(user_prompt_text, schema_json, extracted_text) ==
    LET p1 == StrReplace(user_prompt_text, TextToken, extracted_text)
        p2 == StrReplace(p1, SchemaToken, JsonDumps(schema_json))
    IN StrReplace(p2, YearToken, IntStr(current_year))

\* the three replacements of process_file, in the order of the code
ComposePrompt(user_prompt_text, schema_json, extracted_text) ==
    LET p1 == StrReplace(user_prompt_text, SchemaToken, JsonDumps(schema_json))
        p2 == StrReplace(p1, YearToken, IntStr(current_year))
    IN StrReplace(p2, TextToken, extracted_text)

\* the single replacement of generate_technical_questions
ComposeQuestionPrompt(user_question_prompt, info) ==
    StrReplace(user_question_prompt, InfoToken, JsonDumpsIndent2(info))

\* a call site that tries once more after a transport failure or a non-200
RequestsSentWithRetry(resp) ==
    IF resp.kind = "transport" \/ resp.status_code # 200 THEN 2 ELSE 1

\* requests.post is called once, outside any loop: the number of requests
\* one call site sends for the response (or failure) it meets
RequestsSent(resp) == 1

\* if response.status_code: any status counts as success
StatusTruthy(resp) == resp.status_code # 0

\* if response.status_code == 200
StatusOk(resp) == resp.status_code = 200

\* r[key] for the outcome r of the steps before it
KeyOf(r, key) == IF r.ok THEN GetKey(r.v, key) ELSE Fail

\* r[0] for the outcome r of the steps before it
FirstOf(r) == IF r.ok THEN GetFirst(r.v) ELSE Fail

\* response.json()['choices'][0]['message']['content']: the content value,
\* or [ok |-> FALSE] when any step raises
CompletionOf(resp) ==
    KeyOf(KeyOf(FirstOf(KeyOf(JsonLoads(resp.text), "choices")), "message"), "content")

\* the name of what response.json()[...] raised
LookupError(resp) == IF JsonLoads(resp.text).ok THEN "KeyError" ELSE "JSONDecodeError"

\* The result of running a handler: whether an exception left it, what it
\* showed, how many requests it sent, the texts it handed to a JSON parser
\* after the response arrived, the session values it leaves, and the prompt
\* it composed (if it got that far).
Result(outcome, raised, shown, requests, interpreted, flag, info, composed, prompt) ==
    [outcome |-> outcome, raised |-> raised, shown |-> shown, requests |-> requests,
     interpreted |-> interpreted, show_question_input |-> flag,
     extracted_info |-> info, composed |-> composed, final_user_prompt |-> prompt]

\* the interpretation with the second stage unlocked before the parse
InterpretCompletionFlagFirst(generated, flag, info) ==
    LET head == <<Show("subheader", "Extracted Resume Information")>> IN
    IF generated.t # "str"
    THEN [outcome |-> "request_error", flag |-> TRUE, info |-> info,
          interpreted |-> <<>>,
          shown |-> head \o <<Show("error", "Error during API request: TypeError")>>]
    ELSE LET parsed == JsonLoads(generated.s) IN
         IF parsed.ok
         THEN [outcome |-> "parsed", flag |-> TRUE, info |-> parsed.v,
               interpreted |-> <<generated.s>>,
               shown |-> head \o <<Show("json", JsonDumps(parsed.v))>>]
         ELSE [outcome |-> "not_json", flag |-> TRUE, info |-> info,
               interpreted |-> <<generated.s>>,
               shown |-> head \o
                   <<Show("error", "The returned content is not in valid JSON format."),
                     Show("write", "Raw response:"),
                     Show("code", generated.s)>>]

\* process_file from "Extracted Resume Information" on: parse the
\* completion, store it and unlock the second stage, or show the raw text.
\* A completion that is no str makes json.loads raise TypeError, which the
\* enclosing except Exception reports.
InterpretCompletion(generated, flag, info) ==
    LET head == <<Show("subheader", "Extracted Resume Information")>> IN
    IF generated.t # "str"
    THEN [outcome |-> "request_error", flag |-> flag, info |-> info,
          interpreted |-> <<>>,
          shown |-> head \o <<Show("error", "Error during API request: TypeError")>>]
    ELSE LET parsed == JsonLoads(generated.s) IN
         IF parsed.ok
         THEN [outcome |-> "parsed", flag |-> TRUE, info |-> parsed.v,
               interpreted |-> <<generated.s>>,
               shown |-> head \o <<Show("json", JsonDumps(parsed.v))>>]
         ELSE [outcome |-> "not_json", flag |-> flag, info |-> info,
               interpreted |-> <<generated.s>>,
               shown |-> head \o
                   <<Show("error", "The returned content is not in valid JSON format."),
                     Show("write", "Raw response:"),
                     Show("code", generated.s)>>]

\* process_file, lines 123-139, done: what the run leaves
ExtractionStored(before, prompt, sent, resp, it) ==
    Result(it.outcome, FALSE, before \o it.shown, sent,
           <<resp.text>> \o it.interpreted, it.flag, it.info, TRUE, prompt)

\* process_file, lines 119-145, with the completion looked up: the 200 branch
ExtractionReceived(before, prompt, sent, resp, generated, flag, info) ==
    IF ~generated.ok
    THEN Result("request_error", FALSE,
                before \o <<Show("error", "Error during API request: " \o LookupError(resp))>>,
                sent, <<resp.text>>, flag, info, TRUE, prompt)
    ELSE ExtractionStored(before, prompt, sent, resp,
                          InterpretCompletion(generated.v, flag, info))

\* process_file, lines 110-145: the request and what follows it
ExtractionRequest(before, prompt, sent, resp, flag, info) ==
    IF resp.kind = "transport"
    THEN Result("request_error", FALSE,
                before \o <<Show("error", "Error during API request: ConnectionError")>>,
                sent, <<>>, flag, info, TRUE, prompt)
    ELSE IF ~StatusOk(resp)
    THEN Result("bad_status", FALSE,
                before \o <<Show("error", "Request failed with status code "
                                          \o IntStr(resp.status_code)),
                            Show("write", resp.text)>>,
                sent, <<>>, flag, info, TRUE, prompt)
    ELSE ExtractionReceived(before, prompt, sent, resp, CompletionOf(resp), flag, info)

\* process_file, lines 86-111: compose the prompt, show it, announce the request
ExtractionPrompt(shown, prompt, resp, flag, info) ==
    ExtractionRequest(
        shown \o <<Show("text_area", prompt),
                   Show("info", "Sending request to OpenAI API for CV extraction...")>>,
        prompt, RequestsSent(resp), resp, flag, info)

\* process_file, lines 58-71, with the text extracted: the guards on it
ExtractionText(shown, schema_json, ex, user_prompt_text, resp, flag, info) ==
    IF ex.none
    THEN \* None.strip(): AttributeError, outside every try block
         Result("AttributeError", TRUE, shown \o ex.shown, 0, <<>>, flag, info, FALSE, "")
    ELSE IF IsBlank(ex.text)
    THEN Result("no_text", FALSE,
                shown \o ex.shown \o <<Show("warning",
                    "No text extracted from PDF using pdfplumber.")>>,
                0, <<>>, flag, info, FALSE, "")
    ELSE ExtractionPrompt(shown \o ex.shown,
                          ComposePrompt(user_prompt_text, schema_json, ex.text),
                          resp, flag, info)

\* process_file, lines 42-66, with the schema read: the guards on schema and file
ExtractionGuards(rs, file, user_prompt_text, resp, flag, info) ==
    IF SchemaMissing(rs.schema)
    THEN Result("schema_error", FALSE,
                rs.shown \o <<Show("error", "Error: Schema could not be loaded.")>>,
                0, <<>>, flag, info, FALSE, "")
    ELSE IF ~file.present
    THEN Result("no_file", FALSE,
                rs.shown \o <<Show("error",
                    "Error: File path is missing or file does not exist.")>>,
                0, <<>>, flag, info, FALSE, "")
    ELSE IF ~EndsWith(file.name, ".pdf")
    THEN Result("unsupported_type", FALSE,
                rs.shown \o <<Show("error",
                    "Error: Unsupported file type. Only .pdf files are supported.")>>,
                0, <<>>, flag, info, FALSE, "")
    ELSE ExtractionText(rs.shown, rs.schema, extract_text_from_pdf_plumber(file.data),
                        user_prompt_text, resp, flag, info)

\* process_file(uploaded_file, user_prompt_text) with ./schema.json being
\* schema_file and the endpoint answering resp; flag and info are
\* st.session_state.show_question_input and .extracted_info on entry
process_file(file, user_prompt_text, schema_file, resp, flag, info) ==
    ExtractionGuards(read_schema(schema_file), file, user_prompt_text, resp, flag, info)

\* generate_technical_questions, lines 183-188, with the completion parsed
QuestionsParsed(head, prompt, sent, resp, text, questions, flag, info) ==
    Result(IF questions.ok THEN "parsed" ELSE "not_json", FALSE,
           IF questions.ok THEN head \o <<Show("json", JsonDumps(questions.v))>> ELSE head,
           sent, <<resp.text, text>>, flag, info, TRUE, prompt)

\* generate_technical_questions, lines 175-194, with the completion looked
\* up: the 200 branch. A completion that is no str makes json.loads raise
\* TypeError, which the enclosing except Exception reports.
QuestionsReceived(before, prompt, sent, resp, generated, flag, info) ==
    IF ~generated.ok
    THEN Result("request_error", FALSE,
                before \o <<Show("error",
                    "Error during technical questions generation: " \o LookupError(resp))>>,
                sent, <<resp.text>>, flag, info, TRUE, prompt)
    ELSE IF generated.v.t # "str"
    THEN Result("request_error", FALSE,
                before \o <<Show("subheader", "Generated Technical Questions"),
                            Show("text_area", JsonDumps(generated.v)),
                            Show("error",
                                 "Error during technical questions generation: TypeError")>>,
                sent, <<resp.text>>, flag, info, TRUE, prompt)
    ELSE QuestionsParsed(before \o <<Show("subheader", "Generated Technical Questions"),
                                     Show("text_area", generated.v.s)>>,
                         prompt, sent, resp, generated.v.s, JsonLoads(generated.v.s),
                         flag, info)

\* generate_technical_questions, lines 167-194: the request and what follows it
QuestionsRequest(before, prompt, sent, resp, flag, info) ==
    IF resp.kind = "transport"
    THEN Result("request_error", FALSE,
                before \o <<Show("error",
                    "Error during technical questions generation: ConnectionError")>>,
                sent, <<>>, flag, info, TRUE, prompt)
    ELSE IF ~StatusOk(resp)
    THEN Result("bad_status", FALSE,
                before \o <<Show("error", "Request failed with status code "
                                          \o IntStr(resp.status_code)),
                            Show("write", resp.text)>>,
                sent, <<>>, flag, info, TRUE, prompt)
    ELSE QuestionsReceived(before, prompt, sent, resp, CompletionOf(resp), flag, info)

\* generate_technical_questions, lines 149-167, with the prompt composed
QuestionsPrompt(prompt, resp, flag, info) ==
    QuestionsRequest(
        <<Show("text_area", prompt),
          Show("info", "Sending request to OpenAI API for technical questions...")>>,
        prompt, RequestsSent(resp), resp, flag, info)

\* generate_technical_questions(extracted_info, user_question_prompt) with
\* the endpoint answering resp
generate_technical_questions(info, user_question_prompt, resp, flag) ==
    QuestionsPrompt(ComposeQuestionPrompt(user_question_prompt, info), resp, flag, info)

\* the condition of main without the test of the record
FlagOnly(flag, info) == flag

\* main: the second-stage controls (question prompt text area and the
\* 'Generate Questions' button) are rendered
SecondStageShown(flag, info) == flag /\ info # None

-----------------------------------------------------------------------------
(* Inputs of the model.                                                    *)

RECURSIVE SeqsUpTo(_, _)
\* the sequences over S of length at most n
SeqsUpTo(S, n) ==
    IF n = 0 THEN {<<>>}
    ELSE LET shorter == SeqsUpTo(S, n - 1)
         IN shorter \cup {Append(q, x) : q \in {r \in shorter : Len(r) = n - 1}, x \in S}

RECURSIVE Glue(_, _)
\* the pieces from index i on, concatenated
Glue(pieces, i) == IF i > Len(pieces) THEN "" ELSE pieces[i] \o Glue(pieces, i + 1)

\* page.extract_text() of a page: no text layer, only whitespace, or text
PageTexts == {"", " \n", "Jane Doe"}

Files ==
    {UploadedFile("cv.pdf", NotAPdf), UploadedFile("cv.PDF", Pdf(<<"Jane Doe">>))}
    \cup {UploadedFile("cv.pdf", Pdf(pages)) : pages \in SeqsUpTo(PageTexts, MaxPages)}

SchemaFiles ==
    {NoSchemaFile, SchemaFile("{\"type\": "), SchemaFile("null"),
     SchemaFile("{\"type\": \"object\"}")}

\* the last lines of the default extraction prompt (its only placeholder)
DefaultPrompt == "#### Analyze Content:\ntext\n{extracted_text}"

\* the first lines of the default question prompt (its only placeholder)
DefaultQuestionPrompt ==
    "Generate 15 questions:\n{json.dumps(extracted_info, indent=2)}\nOutput format: JSON"

\* what the user can type into the extraction prompt
PromptEdits ==
    {DefaultPrompt, "CV of {current_year}: {extracted_text} {json.dumps(schema_json)}"}

\* what the user can type into the question prompt
QuestionPromptEdits == {DefaultQuestionPrompt, "Ask anything."}

\* completions of the model: JSON texts of every kind, and text that is no JSON
Completions ==
    {"null", "false", "0", "[]", "{\"seniority\":\"Senior\"}", "not json"}

Responses ==
    {TransportFailure}
    \cup {HttpResponse(200, ChatBody(JStr(c))) : c \in Completions}
    \cup {HttpResponse(200, ChatBody(JNull)), HttpResponse(200, "{}"),
          HttpResponse(200, "<html>"),
          HttpResponse(500, "server error"),
          HttpResponse(429, ChatBody(JStr("{\"seniority\":\"Senior\"}")))}

-----------------------------------------------------------------------------
(* The session: one action per script run.                                 *)

NoCompose ==
    [fn |-> "none", template |-> "", schema_json |-> None, extracted_text |-> "",
     extracted_info |-> None, final_user_prompt |-> "", done |-> FALSE]

\* a run that only renders the page
Rendered(action) ==
    [action |-> action, outcome |-> "rendered", raised |-> FALSE, shown |-> <<>>,
     requests |-> 0, interpreted |-> <<>>, composed |-> FALSE,
     schema_file |-> NoSchemaFile, resp |-> NoResponse]

\* a run in which a button handler ran
Handled(action, res, schema_file, resp) ==
    [action |-> action, outcome |-> res.outcome, raised |-> res.raised,
     shown |-> res.shown, requests |-> res.requests, interpreted |-> res.interpreted,
     composed |-> res.composed, schema_file |-> schema_file, resp |-> resp]

Init ==
    /\ uploaded_file = NoFile
    /\ prompt_text = DefaultPrompt
    /\ question_prompt_text = DefaultQuestionPrompt
    /\ show_question_input = FALSE
    /\ extracted_info = None
    /\ run = Rendered("open")
    /\ compose = NoCompose

\* the user picks a file in the uploader
UploadFile ==
    /\ \E f \in Files : uploaded_file' = f
    /\ run' = Rendered("upload")
    /\ UNCHANGED <<prompt_text, question_prompt_text, show_question_input,
                   extracted_info, compose>>

\* the user removes the file from the uploader
RemoveFile ==
    /\ uploaded_file.present
    /\ uploaded_file' = NoFile
    /\ run' = Rendered("remove")
    /\ UNCHANGED <<prompt_text, question_prompt_text, show_question_input,
                   extracted_info, compose>>

\* the user edits the extraction prompt: update_prompt
EditPrompt ==
    /\ \E t \in PromptEdits : t # prompt_text /\ prompt_text' = t
    /\ run' = Rendered("edit_prompt")
    /\ UNCHANGED <<uploaded_file, question_prompt_text, show_question_input,
                   extracted_info, compose>>

\* the user edits the question prompt: update_question_prompt; the text
\* area exists only while the second stage is shown
EditQuestionPrompt ==
    /\ SecondStageShown(show_question_input, extracted_info)
    /\ \E t \in QuestionPromptEdits : t # question_prompt_text /\ question_prompt_text' = t
    /\ run' = Rendered("edit_question_prompt")
    /\ UNCHANGED <<uploaded_file, prompt_text, show_question_input,
                   extracted_info, compose>>

\* the user presses 'Extract Information': process_file runs to its end
\* (or until an exception leaves it, which ends the script run)
ClickExtract ==
    /\ uploaded_file.present
    /\ \E schema_file \in SchemaFiles :
         \* whether a request is made does not depend on the response
         \E early \in {process_file(uploaded_file, prompt_text, schema_file,
                                    TransportFailure, show_question_input,
                                    extracted_info)} :
            \E resp \in (IF early.composed THEN Responses ELSE {NoResponse}) :
               \E res \in (IF early.composed
                           THEN {process_file(uploaded_file, prompt_text, schema_file,
                                              resp, show_question_input,
                                              extracted_info)}
                           ELSE {early}) :
                  /\ run' = Handled("extract", res, schema_file, resp)
                  /\ show_question_input' = res.show_question_input
                  /\ extracted_info' = res.extracted_info
    /\ UNCHANGED <<uploaded_file, prompt_text, question_prompt_text, compose>>

\* the user presses 'Generate Questions', which exists only while the
\* second stage is shown
ClickGenerate ==
    /\ SecondStageShown(show_question_input, extracted_info)
    /\ \E resp \in Responses :
         \E res \in {generate_technical_questions(extracted_info, question_prompt_text,
                                                   resp, show_question_input)} :
            run' = Handled("generate", res, NoSchemaFile, resp)
    /\ UNCHANGED <<uploaded_file, prompt_text, question_prompt_text,
                   show_question_input, extracted_info, compose>>

Next ==
    \/ UploadFile
    \/ RemoveFile
    \/ EditPrompt
    \/ EditQuestionPrompt
    \/ ClickExtract
    \/ ClickGenerate

Spec == Init /\ [][Next]_vars

-----------------------------------------------------------------------------
(* Prompt composition on its own: the inputs are drawn, the code's         *)
(* replacements are applied to them.                                       *)

\* what a drawn extraction template is glued from
PromptPieces ==
    {SchemaToken, YearToken, TextToken, "Analyze: ", "{", "}", "{extracted", "_text}"}

\* what a drawn question template is glued from
QuestionPieces == {InfoToken, "Questions for ", "{", "}"}

\* schemas json.load can return (process_file goes on only with a non-None one)
Schemas ==
    {JObj(<<>>), JInt(1), JStr("{current_year}"),
     JObj(<<[k |-> "name", v |-> JStr("{extracted_text}")]>>)}

\* texts pdfplumber can extract (process_file goes on only with a non-blank one)
Texts ==
    {"Jane Doe", "{current_year}", "{extracted_text}", "{json.dumps(schema_json)}", "}"}

\* records the first stage can store (the second stage runs only with a
\* non-None one)
Infos ==
    {JBool(FALSE), JInt(0), JList(<<>>), JStr("{json.dumps(extracted_info, indent=2)}"),
     JObj(<<[k |-> "seniority", v |-> JStr("Senior")]>>)}

ComposeInputs ==
    {[fn |-> "process_file", template |-> Glue(pieces, 1), schema_json |-> schema,
      extracted_text |-> text, extracted_info |-> None, final_user_prompt |-> "",
      done |-> FALSE] :
        pieces \in SeqsUpTo(PromptPieces, MaxPieces), schema \in Schemas, text \in Texts}
    \cup
    {[fn |-> "generate_technical_questions", template |-> Glue(pieces, 1),
      schema_json |-> None, extracted_text |-> "", extracted_info |-> info,
      final_user_prompt |-> "", done |-> FALSE] :
        pieces \in SeqsUpTo(QuestionPieces, MaxPieces), info \in Infos}

InitCompose ==
    /\ uploaded_file = NoFile
    /\ prompt_text = DefaultPrompt
    /\ question_prompt_text = DefaultQuestionPrompt
    /\ show_question_input = FALSE
    /\ extracted_info = None
    /\ run = Rendered("open")
    /\ compose \in ComposeInputs

\* process_file composes its prompt
ComposeExtraction ==
    /\ compose.fn = "process_file" /\ ~compose.done
    /\ compose' = [compose EXCEPT
           !.final_user_prompt = ComposePrompt(compose.template, compose.schema_json,
                                               compose.extracted_text),
           !.done = TRUE]
    /\ UNCHANGED session_vars

\* generate_technical_questions composes its prompt
ComposeQuestions ==
    /\ compose.fn = "generate_technical_questions" /\ ~compose.done
    /\ compose' = [compose EXCEPT
           !.final_user_prompt = ComposeQuestionPrompt(compose.template,
                                                       compose.extracted_info),
           !.done = TRUE]
    /\ UNCHANGED session_vars

NextCompose == ComposeExtraction \/ ComposeQuestions

SpecCompose == InitCompose /\ [][NextCompose]_vars

-----------------------------------------------------------------------------
(* Properties.                                                             *)

Shown == SecondStageShown(show_question_input, extracted_info)

ExtractFailed == run.action = "extract" /\ run.outcome # "parsed"

\* C1: every error raised during a user action is caught inside the action:
\* no run ends with an exception leaving process_file or
\* generate_technical_questions.
NoExceptionEscapes == ~run.raised

\* C2 as stated: after a failed 'Extract Information' the second-stage
\* controls are not shown.
FailedExtractionHidesSecondStage == ExtractFailed => ~Shown

\* C2 as amended: a failed 'Extract Information' leaves the flag and the
\* record as they were, so the second-stage controls are shown after it
\* exactly if they were shown before it.
FailedExtractionKeepsSecondStage ==
    [][(run'.action = "extract" /\ run'.outcome # "parsed")
         => /\ UNCHANGED <<show_question_input, extracted_info>>
            /\ SecondStageShown(show_question_input', extracted_info') <=> Shown]_vars

FailedExtractionAfterSuccess == ExtractFailed /\ run.outcome = "not_json" /\ Shown

\* C3: whenever an 'Extract Information' receives a 200 response whose
\* completion parses as JSON (any JSON value), the second-stage controls are
\* shown on the following render.
ParsedCompletionUnlocksSecondStage ==
    (run.action = "extract" /\ run.outcome = "parsed") => Shown

NotOk == /\ run.action \in {"extract", "generate"}
         /\ run.resp.kind = "http"
         /\ run.resp.status_code # 200

NotOkNext == /\ run'.action \in {"extract", "generate"}
             /\ run'.resp.kind = "http"
             /\ run'.resp.status_code # 200

\* C4: in both handlers, for a response whose status is not 200 nothing is
\* handed to a JSON parser, the status code and the response body are both
\* shown, and the record and the second-stage flag stay as they were.
Non200IsShownNotParsed ==
    [][NotOkNext
         => /\ run'.interpreted = <<>>
            /\ \E i \in 1..Len(run'.shown) :
                 /\ run'.shown[i].w = "error"
                 /\ Contains(run'.shown[i].text, IntStr(run'.resp.status_code))
            /\ \E i \in 1..Len(run'.shown) :
                 run'.shown[i] = Show("write", run'.resp.text)
            /\ UNCHANGED <<show_question_input, extracted_info>>]_vars

Non200Met == NotOk /\ run.action = "generate" /\ JsonLoads(run.resp.text).ok

\* the schema file is missing or holds no valid JSON
Unreadable(schema_file) == ~schema_file.exists \/ ~JsonLoads(schema_file.content).ok

HasError(text) == \E i \in 1..Len(run.shown) : run.shown[i] = Show("error", text)

\* C5: if the schema file is missing or is not valid JSON, read_schema
\* reports the load error and process_file stops before composing a prompt
\* and without sending a request, whatever the file and the prompt.
BadSchemaSendsNothing ==
    (run.action = "extract" /\ Unreadable(run.schema_file))
      => /\ run.requests = 0
         /\ ~run.composed
         /\ run.outcome = "schema_error"
         /\ \E i \in 1..Len(run.shown) :
              /\ run.shown[i].w = "error"
              /\ StartsAt(run.shown[i].text, 1, "Error reading schema file: ")
         /\ HasError("Error: Schema could not be loaded.")

\* a character that is not whitespace occurs in s
HasVisibleChar(s) == \E i \in 1..Len(s) : Char(s, i) \notin {" ", "\n", "\t", "\r"}

ReadablePdf(file) == file.present /\ EndsWith(file.name, ".pdf") /\ file.data.valid

BadSchemaMet ==
    /\ run.action = "extract" /\ Unreadable(run.schema_file)
    /\ ReadablePdf(uploaded_file)
    /\ \E i \in 1..Len(uploaded_file.data.pages) : HasVisibleChar(uploaded_file.data.pages[i])

\* an uploaded .pdf none of whose pages has extractable text
Textless(file) ==
    /\ ReadablePdf(file)
    /\ \A i \in 1..Len(file.data.pages) : ~HasVisibleChar(file.data.pages[i])

ExtractGuardsPass ==
    /\ run.schema_file.exists
    /\ JsonLoads(run.schema_file.content).ok
    /\ JsonLoads(run.schema_file.content).v # JNull
    /\ ReadablePdf(uploaded_file)
    /\ \E i \in 1..Len(uploaded_file.data.pages) : HasVisibleChar(uploaded_file.data.pages[i])

\* C7: a user action sends at most one request and never retries: a press
\* of either button sends exactly one when its guards pass and none
\* otherwise, whatever the response; edits and uploads send none.
OneRequestPerAction ==
    /\ run.requests <= 1
    /\ run.action = "extract" => run.requests = (IF ExtractGuardsPass THEN 1 ELSE 0)
    /\ run.action = "generate" => run.requests = 1
    /\ run.action \notin {"extract", "generate"} => run.requests = 0

FailedRequestMet ==
    /\ run.action \in {"extract", "generate"}
    /\ run.requests = 1
    /\ run.resp.kind = "transport"

RECURSIVE Substitute(_, _)
\* the template with every occurrence of a token of bindings replaced by
\* its value, in one pass from left to right over the template
Substitute(template, bindings) ==
    LET hits == {i \in 1..Len(template) :
                    \E tok \in DOMAIN bindings : StartsAt(template, i, tok)}
    IN IF hits = {} THEN template
       ELSE LET at == Min(hits)
                tok == CHOOSE k \in DOMAIN bindings : StartsAt(template, at, k)
            IN SubSeq(template, 1, at - 1) \o bindings[tok]
               \o Substitute(From(template, at + Len(tok)), bindings)

ExtractionBindings ==
    [tok \in {SchemaToken, YearToken, TextToken} |->
        IF tok = SchemaToken THEN JsonDumps(compose.schema_json)
        ELSE IF tok = YearToken THEN IntStr(current_year)
        ELSE compose.extracted_text]

QuestionBindings ==
    [tok \in {InfoToken} |-> JsonDumpsIndent2(compose.extracted_info)]

\* C8: the final prompt is the template with every occurrence of a
\* placeholder token replaced by its bound value and everything else
\* unchanged and in order, in both stages.
PromptIsTemplateWithValues ==
    compose.done =>
        compose.final_user_prompt =
            Substitute(compose.template,
                       IF compose.fn = "process_file" THEN ExtractionBindings
                       ELSE QuestionBindings)

\* C9: 'Generate Questions' runs, and sends its request, only from a
\* session state that holds a non-None record stored by a successful
\* first-stage parse (which is what sets the flag); it leaves the record as
\* it is. With no record there is no second-stage run.
QuestionsNeedRecord ==
    [][run'.action = "generate"
         => /\ extracted_info # None
            /\ show_question_input
            /\ run'.requests = 1
            /\ UNCHANGED <<show_question_input, extracted_info>>]_vars

QuestionsGenerated == run.action = "generate" /\ run.requests = 1 /\ run.outcome = "parsed"

Tokens == {SchemaToken, YearToken, TextToken}

\* C10: the extracted text reaches the final prompt of process_file as it
\* is: wherever the template asks for it the prompt holds the text, and a
\* placeholder token that occurs inside the text is still there.
ExtractedTextVerbatim ==
    (compose.done /\ compose.fn = "process_file" /\ Contains(compose.template, TextToken))
      => /\ Contains(compose.final_user_prompt, compose.extracted_text)
         /\ \A tok \in Tokens :
              Contains(compose.extracted_text, tok)
                => Contains(compose.final_user_prompt, tok)

TokenInsideTextMet ==
    /\ compose.done /\ compose.fn = "process_file"
    /\ Contains(compose.template, TextToken)
    /\ Contains(compose.template, YearToken)
    /\ compose.extracted_text = YearToken

====
